---------------------------- MODULE Spec2Model ----------------------------
(***************************************************************************)
(* State-machine model of tracker::TrackingManager                         *)
(* (object_analytics_node/src/tracker/tracking_manager.cpp).               *)
(*                                                                         *)
(* The manager's fields are the variables; every public method is one      *)
(* action.  The Tracking class, the Munkres solver and OpenCV are not part *)
(* of tracking_manager.cpp: their results are modelled from their          *)
(* contracts and are marked as such where they are defined.                *)
(***************************************************************************)
EXTENDS Integers, Sequences, FiniteSets, TLC

VARIABLES
  initialized_,     \* bool TrackingManager::initialized_
  validFrames_,     \* deque<timespec>: the admission window
  trackings_,       \* vector<shared_ptr<Tracking>>
  tracking_cnt,     \* static int32_t TrackingManager::tracking_cnt
  peer_trackings_,  \* ids held by a second manager instance of the process
  issued,           \* history: every id handed out by addTracking, in order
  last,             \* history: the public method that ran last and its outcome
  calls,            \* history: calls the last method made on Tracking objects
  assoc,            \* locals of a gating and minimum-cost association run
  km,               \* locals of a matchTrackDetWithProb run
  thr               \* per thread: position in and register of addTracking

\* the locals of the methods that are followed step by step
locals == <<assoc, km, thr>>

vars == <<initialized_, validFrames_, trackings_, tracking_cnt,
          peer_trackings_, issued, last, calls, locals>>

-----------------------------------------------------------------------------
(* Bounds of the explored envelope.                                         *)

\* largest tv_nsec of a frame in the long-stream specification
MaxNsec == 6
\* tracks created per run (cap on tracking_cnt)
MaxCnt == 2
\* detections per batch
MaxDets == 2
\* tracks created per run in the lifecycle specification
MaxLifeCnt == 3
\* live tracks at the start of an association run
MaxTracks == 2
\* addTracking calls started by the threads together
MaxCalls == 4
\* rows and columns of a weight matrix
MaxDim == 2
\* largest weight in a weight matrix
MaxWeight == 2
\* label relaxations followed for one row
MaxRelax == 3

(* Program constants.                                                       *)
qFrameNumLimit_ == 5
INFINITY == 1000000

-----------------------------------------------------------------------------
(* Value domains.                                                           *)

Stamp(s, n) == [tv_sec |-> s, tv_nsec |-> n]
\* frames of the association specification: two frames of one second
ShortStamps == {Stamp(0, 0), Stamp(0, 1)}
\* frames of the long-stream specification
StreamStamps == {Stamp(0, n) : n \in 0..MaxNsec} \cup {Stamp(1, 0)}

Rect(x, y, w, h) == [x |-> x, y |-> y, width |-> w, height |-> h]
RA == Rect(10, 10, 4, 4)
RB == Rect(11, 11, 4, 4)
RC == Rect(40, 10, 4, 4)
NoRect == Rect(0, 0, 0, 0)

Object(c, r) == [Category_ |-> c, BoundBox_ |-> r]
Objects == {Object("cat", RA), Object("cat", RB), Object("dog", RC)}
\* the detections of the association specification: two overlapping cats
AssocObjects == {Object("cat", RA), Object("cat", RB)}
StreamObjects == {Object("cat", RA)}

SeqsUpTo(S, n) == UNION {[1..k -> S] : k \in 0..n}
\* a batch of the association specification holds a detection once
Batches ==
  {b \in SeqsUpTo(AssocObjects, MaxDets) :
     \A i, j \in 1..Len(b) : i # j => b[i] # b[j]}
StreamBatches == SeqsUpTo(StreamObjects, 1)

Range(f) == {f[i] : i \in DOMAIN f}

-----------------------------------------------------------------------------
(* Tracking objects (class Tracking, tracking.cpp: not in this file).       *)

\* Tracking::Tracking(id, name, probability, rect); a new track is active
Tracking(id, name, rect) ==
  [id |-> id, name |-> name, rect |-> rect, active |-> TRUE]

\* Tracking::isActive()
isActive(t) == t.active

\* Tracking::getTrackedRect()
getTrackedRect(t) == t.rect

\* one call on a Tracking object; ok is the value the call returned
Call(fn, id, rect) == [fn |-> fn, id |-> id, rect |-> rect, ok |-> TRUE]

-----------------------------------------------------------------------------
(* The admission window.                                                    *)

\* TrackingManager::isDetFrameValid
isDetFrameValid(frames, stamp) ==
  \E i \in 1..Len(frames) :
     frames[i].tv_sec = stamp.tv_sec /\ frames[i].tv_nsec = stamp.tv_nsec

\* an ordering check that lets an equal nanosecond field through
isTrackFrameValidOrEqual(frames, stamp) ==
  IF frames = <<>> THEN TRUE
  ELSE frames[Len(frames)].tv_nsec <= stamp.tv_nsec

\* TrackingManager::isTrackFrameValid
isTrackFrameValid(frames, stamp) ==
  IF frames = <<>> THEN TRUE
  ELSE LET latest == frames[Len(frames)] IN
       IF latest.tv_nsec > stamp.tv_nsec THEN FALSE
       ELSE IF latest.tv_nsec < stamp.tv_nsec THEN TRUE
       ELSE IF latest.tv_nsec >= stamp.tv_nsec THEN FALSE
       ELSE TRUE

\* a window that evicts the newest entry instead of the oldest
admitDropNewest(frames, stamp) ==
  LET pushed == Append(frames, stamp) IN
  IF Len(pushed) > qFrameNumLimit_ THEN SubSeq(pushed, 1, Len(pushed) - 1)
  ELSE pushed

\* push_back, then pop_front when over the limit (track(), lines 47-49)
admit(frames, stamp) ==
  LET pushed == Append(frames, stamp) IN
  IF Len(pushed) > qFrameNumLimit_ THEN Tail(pushed) ELSE pushed

-----------------------------------------------------------------------------
(* Gating distance (calcTrackDetMahaDistance).                              *)

\* Twice the centre of a rectangle: x + width/2.0f, y + height/2.0f doubled,
\* so that the arithmetic stays in the integers.
Centre2(r) == <<2 * r.x + r.width, 2 * r.y + r.height>>

\* Four times the squared cv::Mahalanobis distance of two centres under the
\* unit covariance a Traj carries here (Tracking::getTraj is not in this file).
MahaSq4(a, b) ==
  LET ca == Centre2(a)
      cb == Centre2(b)
  IN (ca[1] - cb[1]) * (ca[1] - cb[1]) + (ca[2] - cb[2]) * (ca[2] - cb[2])

\* the gate "m_dist > 2.0f" on the squared, scaled distance
Gated(d4) == d4 > 16

\* a cell that is written before the gate is looked at
costCellNoGate(t, det, hasTraj) ==
  IF ~hasTraj THEN INFINITY
  ELSE MahaSq4(getTrackedRect(t), det.BoundBox_)

\* One cell: the sentinel when the track has no trajectory at the stamp or the
\* pair is gated out, else pow(m_dist, 2).  Costs are kept in quarters (four
\* times the float the code stores), which is exact for half-integer centres.
costCell(t, det, hasTraj) ==
  IF ~hasTraj THEN INFINITY
  ELSE LET d4 == MahaSq4(getTrackedRect(t), det.BoundBox_) IN
       IF Gated(d4) THEN INFINITY ELSE d4

\* TrackingManager::calcTrackDetMahaDistance: tracks as rows, dets as columns;
\* found[id] is what getTraj(stamp, traj) returns for the track with that id.
calcTrackDetMahaDistance(dets, tracks, found) ==
  IF Len(dets) <= 0 \/ Len(tracks) <= 0 THEN <<>>
  ELSE [i \in 1..Len(tracks) |->
          [j \in 1..Len(dets) |-> costCell(tracks[i], dets[j], found[tracks[i].id])]]

-----------------------------------------------------------------------------
(* Assignment (matchTrackDetWithDistance).                                  *)

Rows(m) == Len(m)
Cols(m) == IF Len(m) = 0 THEN 0 ELSE Len(m[1])

\* The partial assignments of rows 1..i-1 in P, extended over rows i..Rows(m):
\* a[i] is the column of row i, 0 for none; a sentinel cell is never paired
\* and no column is used twice.
RECURSIVE Extend(_, _, _)
Extend(m, i, P) ==
  IF i > Rows(m) THEN P
  ELSE Extend(m, i + 1,
         {Append(x[1], x[2]) :
            x \in {y \in P \X (0..Cols(m)) :
                     \/ y[2] = 0
                     \/ /\ m[i][y[2]] # INFINITY
                        /\ \A k \in 1..Len(y[1]) : y[1][k] # y[2]}})

Assignments(m) == Extend(m, 1, {<<>>})

RECURSIVE AssignedRows(_, _)
AssignedRows(a, i) ==
  IF i = 0 THEN 0 ELSE (IF a[i] # 0 THEN 1 ELSE 0) + AssignedRows(a, i - 1)

RECURSIVE SumCost(_, _, _)
SumCost(m, a, i) ==
  IF i = 0 THEN 0 ELSE (IF a[i] # 0 THEN m[i][a[i]] ELSE 0) + SumCost(m, a, i - 1)

\* more pairs first, then less cost (a finite cost is at most 16 quarters)
Rank(m, a) == 100 * AssignedRows(a, Len(a)) - SumCost(m, a, Len(a))

\* Munkres<float>::solve (munkres.h, not in this file), from its contract: a
\* minimum-cost assignment in which the sentinel forbids a pairing.  The
\* solved matrix holds 0 in the assigned cells and -1 elsewhere; ties are the
\* solver's to break.
MunkresSolve(m) ==
  LET ranked == {<<Rank(m, a), a>> : a \in Assignments(m)}
      top    == CHOOSE r \in ranked : \A q \in ranked : q[1] <= r[1]
  IN {[i \in 1..Rows(m) |->
         [j \in 1..Cols(m) |-> IF r[2][i] = j THEN 0 ELSE -1]] :
      r \in {q \in ranked : q[1] = top[1]}}

Fill(n, v) == [i \in 1..n |-> v]

\* read-off loops that fill in the row mapping only
RECURSIVE matchReadOffRowsOnly(_, _, _, _)
matchReadOffRowsOnly(solved, k, row_match, col_match) ==
  IF k >= Rows(solved) * Cols(solved)
  THEN [row_match |-> row_match, col_match |-> col_match]
  ELSE LET row == k \div Cols(solved)
           col == k % Cols(solved)
       IN IF solved[row + 1][col + 1] = 0
          THEN matchReadOffRowsOnly(solved, k + 1,
                                    [row_match EXCEPT ![row + 1] = col], col_match)
          ELSE matchReadOffRowsOnly(solved, k + 1, row_match, col_match)

\* read-off loops that take every cell the solver did not leave positive
RECURSIVE matchReadOffNonPositive(_, _, _, _)
matchReadOffNonPositive(solved, k, row_match, col_match) ==
  IF k >= Rows(solved) * Cols(solved)
  THEN [row_match |-> row_match, col_match |-> col_match]
  ELSE LET row == k \div Cols(solved)
           col == k % Cols(solved)
       IN IF solved[row + 1][col + 1] <= 0
          THEN matchReadOffNonPositive(solved, k + 1,
                                       [row_match EXCEPT ![row + 1] = col],
                                       [col_match EXCEPT ![col + 1] = row])
          ELSE matchReadOffNonPositive(solved, k + 1, row_match, col_match)

\* The read-off loops of lines 298-305, cell k in row-major order; indices
\* stored in the match arrays are 0-based as in the code.
RECURSIVE matchReadOff(_, _, _, _)
matchReadOff(solved, k, row_match, col_match) ==
  IF k >= Rows(solved) * Cols(solved)
  THEN [row_match |-> row_match, col_match |-> col_match]
  ELSE LET row == k \div Cols(solved)
           col == k % Cols(solved)
       IN IF solved[row + 1][col + 1] = 0
          THEN matchReadOff(solved, k + 1,
                            [row_match EXCEPT ![row + 1] = col],
                            [col_match EXCEPT ![col + 1] = row])
          ELSE matchReadOff(solved, k + 1, row_match, col_match)

\* TrackingManager::matchTrackDetWithDistance, given the matrix the solver
\* left behind.
matchTrackDetWithDistance(distance, row_match, col_match, solved) ==
  IF distance = <<>>
  THEN [row_match |-> row_match, col_match |-> col_match]
  ELSE IF Len(row_match) # Rows(distance) \/ Len(col_match) # Cols(distance)
  THEN [row_match |-> row_match, col_match |-> col_match]
  ELSE matchReadOff(solved, 0, row_match, col_match)

-----------------------------------------------------------------------------
(* Track creation and removal.                                              *)

\* a counter that is read but not advanced
NextCntStuck(cnt) == cnt

\* tracking_cnt++ (line 458): the value the counter holds afterwards
NextCnt(cnt) == cnt + 1

\* TrackingManager::addTracking on the manager state
\* m = [trackings, cnt, issued, calls]
addTracking(m, name, rect) ==
  LET t == Tracking(m.cnt, name, rect) IN
  [m EXCEPT !.trackings = Append(m.trackings, t),
            !.cnt = NextCnt(m.cnt),
            !.issued = Append(m.issued, t.id)]

Manager == [trackings |-> trackings_, cnt |-> tracking_cnt,
            issued |-> issued, calls |-> <<>>]

\* vector::erase at 0-based position i
Erase(v, i) == SubSeq(v, 1, i) \o SubSeq(v, i + 2, Len(v))

\* an erase loop that also steps the iterator after erasing
RECURSIVE cleanLoopSkip(_, _)
cleanLoopSkip(v, i) ==
  IF i >= Len(v) THEN v
  ELSE IF ~isActive(v[i + 1]) THEN cleanLoopSkip(Erase(v, i), i + 1)
  ELSE cleanLoopSkip(v, i + 1)

\* The loop of TrackingManager::cleanTrackings with the iterator at 0-based
\* position i: t = erase(t) stays in place, ++t moves on.
RECURSIVE cleanLoop(_, _)
cleanLoop(v, i) ==
  IF i >= Len(v) THEN v
  ELSE IF ~isActive(v[i + 1]) THEN cleanLoop(Erase(v, i), i)
  ELSE cleanLoop(v, i + 1)

-----------------------------------------------------------------------------
(* The greedy matcher's score (getTracking, lines 509-533).                 *)

Max(a, b) == IF a > b THEN a ELSE b
Min(a, b) == IF a < b THEN a ELSE b

Area(r) == r.width * r.height

\* (trect & rect).area()
InterArea(a, b) ==
  LET w == Min(a.x + a.width, b.x + b.width) - Max(a.x, b.x)
      h == Min(a.y + a.height, b.y + b.height) - Max(a.y, b.y)
  IN IF w <= 0 \/ h <= 0 THEN 0 ELSE w * h

\* cv::Point2i(x + width/2.0f, y + height/2.0f): truncated to int
CentreI(r) == <<r.x + r.width \div 2, r.y + r.height \div 2>>

\* The double m = overlap * 100 / deviate, kept exactly as the fraction
\* (m / 100)^2 = n / d with n = a0^2 and d = (a1 + a2 - a0)^2 * deviate^2.
\* d = 0 with n > 0 is +inf (division by a zero deviation), n = d = 0 is NaN.
Score(trect, rect) ==
  LET a1 == Area(trect)
      a2 == Area(rect)
      a0 == InterArea(trect, rect)
      c1 == CentreI(trect)
      c2 == CentreI(rect)
      dev2 == (c1[1] - c2[1]) * (c1[1] - c2[1]) + (c1[2] - c2[2]) * (c1[2] - c2[2])
      u == a1 + a2 - a0
  IN IF u = 0 THEN [n |-> 0, d |-> 0]
     ELSE [n |-> a0 * a0, d |-> u * u * dev2]

ZeroScore == [n |-> 0, d |-> 1]
IsNaN(s) == s.n = 0 /\ s.d = 0

\* m > match on doubles (false when either side is NaN)
ScoreGt(s, t) == ~IsNaN(s) /\ ~IsNaN(t) /\ s.n * t.d > t.n * s.d

\* match > kMatchThreshold (0.3): (m / 100)^2 > 9 / 1000000
AboveMatchThreshold(s) == ~IsNaN(s) /\ 1000000 * s.n > 9 * s.d

\* a search loop that compares rectangles without comparing names
RECURSIVE getTrackingLoopAnyName(_, _, _, _, _)
getTrackingLoopAnyName(v, i, obj_name, rect, acc) ==
  IF i >= Len(v) THEN acc
  ELSE LET t == v[i + 1]
           m == Score(getTrackedRect(t), rect)
           seen == [acc EXCEPT !.in_timezone = 1]
       IN IF ScoreGt(m, seen.match)
          THEN getTrackingLoopAnyName(v, i + 1, obj_name, rect,
                                      [seen EXCEPT !.tracking = i, !.match = m])
          ELSE getTrackingLoopAnyName(v, i + 1, obj_name, rect, seen)

\* The search loop of getTracking from 0-based position i; acc = [match,
\* tracking (0-based position of the best track, -1 for the empty handle),
\* in_timezone].
RECURSIVE getTrackingLoop(_, _, _, _, _)
getTrackingLoop(v, i, obj_name, rect, acc) ==
  IF i >= Len(v) THEN acc
  ELSE LET t == v[i + 1]
           m == Score(getTrackedRect(t), rect)
           seen == [acc EXCEPT !.in_timezone = 1]
       IN IF obj_name = t.name /\ ScoreGt(m, seen.match)
          THEN getTrackingLoop(v, i + 1, obj_name, rect,
                               [seen EXCEPT !.tracking = i, !.match = m])
          ELSE getTrackingLoop(v, i + 1, obj_name, rect, seen)

-----------------------------------------------------------------------------
(* The loops of track() and detectRecvProcess().                            *)

\* an update loop that erases a track whose update failed
RECURSIVE trackLoopErase(_, _, _, _, _)
trackLoopErase(v, i, stamp, rets, log) ==
  IF i >= Len(v) THEN [trackings |-> v, calls |-> log]
  ELSE LET t == v[i + 1]
           c == [Call("updateTracker", t.id, NoRect) EXCEPT !.ok = rets[t.id]]
       IN IF ~rets[t.id]
          THEN trackLoopErase(Erase(v, i), i, stamp, rets, Append(log, c))
          ELSE trackLoopErase(v, i + 1, stamp, rets, Append(log, c))

\* The while loop of track(), lines 60-73, with the iterator at 0-based
\* position i; rets[id] is what updateTracker(frame) returns for that track.
\* Both branches only log and step the iterator.
RECURSIVE trackLoop(_, _, _, _, _)
trackLoop(v, i, stamp, rets, log) ==
  IF i >= Len(v) THEN [trackings |-> v, calls |-> log]
  ELSE LET t == v[i + 1]
           c == [Call("updateTracker", t.id, NoRect) EXCEPT !.ok = rets[t.id]]
       IN IF ~rets[t.id]
          THEN trackLoop(v, i + 1, stamp, rets, Append(log, c))
          ELSE trackLoop(v, i + 1, stamp, rets, Append(log, c))

\* a detection loop that hands out tracks back to front
RECURSIVE detectLoopReversed(_, _, _, _, _)
detectLoopReversed(m, i, stamp, objs, det_matches) ==
  IF i >= Len(objs) THEN m
  ELSE LET j == Len(objs) - i IN
       IF det_matches[j] >= 0
       THEN detectLoopReversed(m, i + 1, stamp, objs, det_matches)
       ELSE LET a == addTracking(m, objs[j].Category_, objs[j].BoundBox_)
                t == a.trackings[Len(a.trackings)]
            IN detectLoopReversed(
                 [a EXCEPT !.calls = Append(a.calls,
                    Call("rectifyTracker", t.id, objs[j].BoundBox_))],
                 i + 1, stamp, objs, det_matches)

\* The for loop of detectRecvProcess(), lines 213-226, at detection i
\* (0-based): a matched detection is only printed, an unmatched one gets a
\* new track that is rectified at once.
RECURSIVE detectLoop(_, _, _, _, _)
detectLoop(m, i, stamp, objs, det_matches) ==
  IF i >= Len(objs) THEN m
  ELSE IF det_matches[i + 1] >= 0
       THEN detectLoop(m, i + 1, stamp, objs, det_matches)
       ELSE LET a == addTracking(m, objs[i + 1].Category_, objs[i + 1].BoundBox_)
                t == a.trackings[Len(a.trackings)]
            IN detectLoop(
                 [a EXCEPT !.calls = Append(a.calls,
                    Call("rectifyTracker", t.id, objs[i + 1].BoundBox_))],
                 i + 1, stamp, objs, det_matches)

-----------------------------------------------------------------------------
(* The state machine.                                                       *)

\* What a method did: res names the path it took, det_matches is the local of
\* detectRecvProcess, ret the id of the track a method returned (-1 for none),
\* n the number of tracks a pruning pass erased.
Outcome(op, res) ==
  [op |-> op, res |-> res, det_matches |-> <<>>, ret |-> -1, n |-> 0]

Ids(ts) == {ts[i].id : i \in 1..Len(ts)}

\* the values a call on each track may return
Rets(ts) == [Ids(ts) -> BOOLEAN]

\* the threads that call into the manager
Threads == {1, 2}

\* no method that is followed step by step is running
Idle ==
  /\ assoc = [pc |-> "idle"]
  /\ km = [pc |-> "idle"]
  /\ thr = [t \in Threads |-> [pc |-> "idle", reg |-> 0]]

\* TrackingManager::TrackingManager and the static initialiser of line 29
Init ==
  /\ initialized_ = FALSE
  /\ validFrames_ = <<>>
  /\ trackings_ = <<>>
  /\ tracking_cnt = 0
  /\ peer_trackings_ = <<>>
  /\ issued = <<>>
  /\ last = Outcome("TrackingManager", "constructed")
  /\ calls = <<>>
  /\ Idle

\* track without the initialized_ test of line 41
trackNoInitCheck(stamp) ==
  /\ IF isTrackFrameValid(validFrames_, stamp)
     THEN \E rets \in Rets(trackings_) :
          LET r == trackLoop(trackings_, 0, stamp, rets, <<>>) IN
          /\ validFrames_' = admit(validFrames_, stamp)
          /\ trackings_' = r.trackings
          /\ calls' = r.calls
          /\ last' = Outcome("track",
                              IF Len(validFrames_) + 1 > qFrameNumLimit_
                              THEN "admitted, oldest evicted" ELSE "admitted")
     ELSE /\ UNCHANGED <<validFrames_, trackings_>>
          /\ calls' = <<>>
          /\ last' = Outcome("track", "rejected")
  /\ UNCHANGED <<locals, initialized_, tracking_cnt, peer_trackings_, issued>>

\* TrackingManager::track for a frame with this stamp; rets[id] is what
\* updateTracker(frame) returns for the track with that id
track(stamp) ==
  /\ IF ~initialized_
     THEN /\ UNCHANGED <<validFrames_, trackings_>>
          /\ calls' = <<>>
          /\ last' = Outcome("track", "uninitialized")
     ELSE IF isTrackFrameValid(validFrames_, stamp)
     THEN \E rets \in Rets(trackings_) :
          LET r == trackLoop(trackings_, 0, stamp, rets, <<>>) IN
          /\ validFrames_' = admit(validFrames_, stamp)
          /\ trackings_' = r.trackings
          /\ calls' = r.calls
          /\ last' = Outcome("track",
                              IF Len(validFrames_) + 1 > qFrameNumLimit_
                              THEN "admitted, oldest evicted" ELSE "admitted")
     ELSE /\ UNCHANGED <<validFrames_, trackings_>>
          /\ calls' = <<>>
          /\ last' = Outcome("track", "rejected")
  /\ UNCHANGED <<locals, initialized_, tracking_cnt, peer_trackings_, issued>>

\* TrackingManager::detectRecvProcess for a frame with this stamp; found[id]
\* is what getTraj(stamp, traj) returns for the track with that id
detectRecvProcess(stamp, objs) ==
  IF initialized_ /\ isDetFrameValid(validFrames_, stamp)
  THEN /\ calls' = <<>>
       /\ last' = Outcome("detectRecvProcess", "dropped")
       /\ UNCHANGED <<locals, initialized_, validFrames_, trackings_, tracking_cnt,
                      peer_trackings_, issued>>
  ELSE \E found \in (IF Len(objs) = 0 THEN {[id \in Ids(trackings_) |-> FALSE]}
                      ELSE Rets(trackings_)) :
       LET distance == calcTrackDetMahaDistance(objs, trackings_, found)
           det0 == Fill(Len(objs), -1)
           trk0 == Fill(Len(trackings_), -1)
       IN \E solved \in (IF distance = <<>> THEN {<<>>} ELSE MunkresSolve(distance)) :
            LET mt == IF distance # <<>>
                      THEN matchTrackDetWithDistance(distance, trk0, det0, solved)
                      ELSE [row_match |-> trk0, col_match |-> det0]
                m == detectLoop(Manager, 0, stamp, objs, mt.col_match)
            IN /\ trackings_' = m.trackings
               /\ tracking_cnt' = m.cnt
               /\ issued' = m.issued
               /\ calls' = m.calls
               /\ initialized_' = TRUE
               /\ last' = [Outcome("detectRecvProcess",
                                   IF initialized_ THEN "processed" ELSE "bootstrap")
                             EXCEPT !.det_matches = mt.col_match]
               /\ UNCHANGED <<locals, validFrames_, peer_trackings_>>

\* TrackingManager::addTracking called on this manager
addTrackingCall(name, rect) ==
  LET m == addTracking(Manager, name, rect) IN
  /\ trackings_' = m.trackings
  /\ tracking_cnt' = m.cnt
  /\ issued' = m.issued
  /\ calls' = <<>>
  /\ last' = [Outcome("addTracking", "created") EXCEPT !.ret = m.trackings[Len(m.trackings)].id]
  /\ UNCHANGED <<locals, initialized_, validFrames_, peer_trackings_>>

\* TrackingManager::addTracking called on a second instance, which shares
\* the static counter
peerAddTracking(name, rect) ==
  LET m == addTracking([Manager EXCEPT !.trackings = peer_trackings_], name, rect) IN
  /\ peer_trackings_' = m.trackings
  /\ tracking_cnt' = m.cnt
  /\ issued' = m.issued
  /\ calls' = <<>>
  /\ last' = [Outcome("peer addTracking", "created") EXCEPT !.ret = m.trackings[Len(m.trackings)].id]
  /\ UNCHANGED <<locals, initialized_, validFrames_, trackings_>>

\* TrackingManager::cleanTrackings
cleanTrackings ==
  /\ trackings_' = cleanLoop(trackings_, 0)
  /\ calls' = <<>>
  /\ last' = [Outcome("cleanTrackings", "done")
                EXCEPT !.n = Len(trackings_) - Len(trackings_')]
  /\ UNCHANGED <<locals, initialized_, validFrames_, tracking_cnt, peer_trackings_, issued>>

\* a fallback that creates a track only for a manager without tracks
createsWhenUnmatchedNoTracksOnly(size, in_timezone) == size = 0

\* The test of line 539: create a track when nothing matched and either there
\* are no tracks or some track was looked at.
createsWhenUnmatched(size, in_timezone) == size = 0 \/ in_timezone > 0

\* TrackingManager::getTracking
getTracking(obj_name, rect) ==
  LET acc == getTrackingLoop(trackings_, 0, obj_name, rect,
                             [match |-> ZeroScore, tracking |-> -1, in_timezone |-> 0])
  IN /\ calls' = <<>>
     /\ UNCHANGED <<locals, initialized_, validFrames_, peer_trackings_>>
     /\ IF AboveMatchThreshold(acc.match)
        THEN /\ last' = [Outcome("getTracking", "matched")
                           EXCEPT !.ret = trackings_[acc.tracking + 1].id]
             /\ UNCHANGED <<trackings_, tracking_cnt, issued>>
        ELSE IF createsWhenUnmatched(Len(trackings_), acc.in_timezone)
        THEN LET m == addTracking(Manager, obj_name, rect) IN
             /\ trackings_' = m.trackings
             /\ tracking_cnt' = m.cnt
             /\ issued' = m.issued
             /\ last' = [Outcome("getTracking", "created")
                           EXCEPT !.ret = m.trackings[Len(m.trackings)].id]
        ELSE /\ last' = Outcome("getTracking", "empty")
             /\ UNCHANGED <<trackings_, tracking_cnt, issued>>

\* A Tracking object turns inactive by its own logic (tracking.cpp, not in
\* this file); the manager only reads the flag.
trackingLost(i) ==
  /\ isActive(trackings_[i])
  /\ trackings_' = [trackings_ EXCEPT ![i].active = FALSE]
  /\ calls' = <<>>
  /\ last' = Outcome("Tracking", "lost")
  /\ UNCHANGED <<locals, initialized_, validFrames_, tracking_cnt, peer_trackings_, issued>>

-----------------------------------------------------------------------------
(* One association run of detectRecvProcess, local by local.                *)

\* the track sequences a manager holds after creating up to MaxTracks tracks
TrackSeqs ==
  {[i \in 1..Len(os) |-> Tracking(i - 1, os[i].Category_, os[i].BoundBox_)] :
     os \in SeqsUpTo(Objects, MaxTracks)}

\* A manager with some live tracks on which detectRecvProcess has been called
\* with a batch that passes the test of line 194.
InitAssoc ==
  /\ initialized_ \in BOOLEAN
  /\ validFrames_ = <<>>
  /\ trackings_ \in TrackSeqs
  /\ tracking_cnt = Len(trackings_)
  /\ peer_trackings_ = <<>>
  /\ issued = [i \in 1..Len(trackings_) |-> i - 1]
  /\ last = Outcome("TrackingManager", "constructed")
  /\ calls = <<>>
  /\ \E objs \in SeqsUpTo(Objects, MaxDets), found \in Rets(trackings_) :
       assoc = [pc |-> "called", objs |-> objs, found |-> found]
  /\ km = [pc |-> "idle"]
  /\ thr = [t \in Threads |-> [pc |-> "idle", reg |-> 0]]

\* detectRecvProcess, lines 200-205: the cost matrix and the two match arrays
assocBuild ==
  /\ assoc.pc = "called"
  /\ assoc' = [pc |-> "built", objs |-> assoc.objs, found |-> assoc.found,
               before |-> Len(trackings_), solved |-> <<>>,
               distance |-> calcTrackDetMahaDistance(assoc.objs, trackings_, assoc.found),
               det_matches |-> Fill(Len(assoc.objs), -1),
               tracker_matches |-> Fill(Len(trackings_), -1)]
  /\ UNCHANGED <<initialized_, validFrames_, trackings_, tracking_cnt,
                 peer_trackings_, issued, last, calls, km, thr>>

\* detectRecvProcess, lines 207-211: the solver runs when the matrix is not
\* empty
assocMatch ==
  /\ assoc.pc = "built"
  /\ \E solved \in (IF assoc.distance = <<>> THEN {<<>>}
                    ELSE MunkresSolve(assoc.distance)) :
       LET mt == IF assoc.distance # <<>>
                 THEN matchTrackDetWithDistance(assoc.distance, assoc.tracker_matches,
                                                assoc.det_matches, solved)
                 ELSE [row_match |-> assoc.tracker_matches,
                       col_match |-> assoc.det_matches]
       IN assoc' = [assoc EXCEPT !.pc = "matched",
                                 !.solved = solved,
                                 !.det_matches = mt.col_match,
                                 !.tracker_matches = mt.row_match]
  /\ UNCHANGED <<initialized_, validFrames_, trackings_, tracking_cnt,
                 peer_trackings_, issued, last, calls, km, thr>>

\* detectRecvProcess, lines 213-228: the loop over the detections and the
\* initialized_ flag
assocCreate ==
  /\ assoc.pc = "matched"
  /\ LET m == detectLoop(Manager, 0, Stamp(0, 0), assoc.objs, assoc.det_matches) IN
     /\ trackings_' = m.trackings
     /\ tracking_cnt' = m.cnt
     /\ issued' = m.issued
     /\ calls' = m.calls
  /\ initialized_' = TRUE
  /\ last' = [Outcome("detectRecvProcess",
                      IF initialized_ THEN "processed" ELSE "bootstrap")
                EXCEPT !.det_matches = assoc.det_matches]
  /\ assoc' = [assoc EXCEPT !.pc = "done"]
  /\ UNCHANGED <<validFrames_, peer_trackings_, km, thr>>

NextAssoc == assocBuild \/ assocMatch \/ assocCreate

SpecAssoc == InitAssoc /\ [][NextAssoc]_vars

-----------------------------------------------------------------------------
(* The greedy matcher on its own.                                           *)

\* tracks and queries: two overlapping rectangles, one far away, and a second
\* label on an overlapping rectangle
GreedyObjects ==
  {Object("cat", RA), Object("cat", RB), Object("cat", RC), Object("dog", RB)}

\* a manager that has created up to MaxTracks tracks
InitGreedy ==
  /\ initialized_ = FALSE
  /\ validFrames_ = <<>>
  /\ \E os \in SeqsUpTo(GreedyObjects, MaxTracks) :
       trackings_ = [i \in 1..Len(os) |->
                       Tracking(i - 1, os[i].Category_, os[i].BoundBox_)]
  /\ tracking_cnt = Len(trackings_)
  /\ peer_trackings_ = <<>>
  /\ issued = [i \in 1..Len(trackings_) |-> i - 1]
  /\ last = Outcome("TrackingManager", "constructed")
  /\ calls = <<>>
  /\ Idle

NextGreedy ==
  \E o \in GreedyObjects :
     getTracking(o.Category_, o.BoundBox_) /\ tracking_cnt' <= MaxTracks + 1

SpecGreedy == InitGreedy /\ [][NextGreedy]_vars

-----------------------------------------------------------------------------
(* matchTrackDetWithProb and searchMatch.  Weights are integers, so the     *)
(* tolerance 1e-04 of line 421 separates gap <= 0 from gap >= 1.            *)

\* the weight matrices handed to matchTrackDetWithProb
WeightMatrices ==
  UNION {[1..r -> [1..c -> 0..MaxWeight]] : r \in 1..MaxDim, c \in 1..MaxDim}

\* lines 311-317: the weights in the top left corner of a zero square
Pad(weights) ==
  LET size_squal == IF Rows(weights) > Cols(weights) THEN Rows(weights)
                    ELSE Cols(weights)
  IN [i \in 1..size_squal |->
        [j \in 1..size_squal |->
           IF i <= Rows(weights) /\ j <= Cols(weights) THEN weights[i][j] ELSE 0]]

\* the maximum of line 341, starting from row_max = 0.0f with "<="
RECURSIVE RowMax(_, _, _)
RowMax(row, j, row_max) ==
  IF j > Len(row) THEN row_max
  ELSE RowMax(row, j + 1, IF row_max <= row[j] THEN row[j] ELSE row_max)

\* cv::minMaxIdx on col_gap: the smallest entry
MinOf(v) == CHOOSE x \in Range(v) : \A y \in Range(v) : x <= y

\* line 421, "if (abs(gap <= 1e-04)) gap = 0.0f;": abs is applied to the
\* result of the comparison, so every gap of at most 1e-04, a negative one
\* too, becomes 0
snap(gap) == IF gap <= 0 THEN 0 ELSE gap

\* TrackingManager::searchMatch for row srcId (0-based); s holds the arrays
\* the call may write (srcVisit, tgtVisit, tgtMatch, weightDelta) and the
\* depth of the recursion, K the ones it only reads (srcCorr, tgtCorr,
\* correlations).  searchLoop is the for loop of line 415 from column i.
RECURSIVE searchMatch(_, _, _), searchLoop(_, _, _, _)
searchMatch(srcId, s, K) ==
  LET entered == [s EXCEPT !.row_visit[srcId + 1] = 1,
                           !.depth = s.depth + 1,
                           !.maxdepth = Max(s.maxdepth, s.depth + 1)]
      r == searchLoop(srcId, 0, entered, K)
  IN [ret |-> r.ret, s |-> [r.s EXCEPT !.depth = s.depth]]

searchLoop(srcId, i, s, K) ==
  IF i >= Len(K.col_weight) THEN [ret |-> FALSE, s |-> s]
  ELSE IF s.col_visit[i + 1] = 1 THEN searchLoop(srcId, i + 1, s, K)
  ELSE LET gap == snap(K.row_weight[srcId + 1] + K.col_weight[i + 1]
                       - K.correlations[srcId + 1][i + 1])
       IN IF gap = 0
          THEN LET s1 == [s EXCEPT !.col_visit[i + 1] = 1]
                   tgtSrcIdx == s1.col_mask[i + 1]
               IN IF tgtSrcIdx = -1
                  THEN [ret |-> TRUE, s |-> [s1 EXCEPT !.col_mask[i + 1] = srcId]]
                  ELSE LET r == searchMatch(tgtSrcIdx, s1, K) IN
                       IF r.ret
                       THEN [ret |-> TRUE, s |-> [r.s EXCEPT !.col_mask[i + 1] = srcId]]
                       ELSE searchLoop(srcId, i + 1, r.s, K)
          ELSE searchLoop(srcId, i + 1,
                          [s EXCEPT !.col_gap[i + 1] = Min(gap, s.col_gap[i + 1])], K)

\* lines 368-371: the visit flags are cleared and row km.i is searched
Search ==
  searchMatch(km.i,
              [row_visit |-> Fill(km.n, 0), col_visit |-> Fill(km.n, 0),
               col_mask |-> km.col_mask, col_gap |-> km.col_gap,
               depth |-> 0, maxdepth |-> 0],
              [row_weight |-> km.row_weight, col_weight |-> km.col_weight,
               correlations |-> km.correlations])

\* matchTrackDetWithProb has been called with a weight matrix and a
\* 1 x cols output array
InitProb ==
  /\ initialized_ = FALSE
  /\ validFrames_ = <<>>
  /\ trackings_ = <<>>
  /\ tracking_cnt = 0
  /\ peer_trackings_ = <<>>
  /\ issued = <<>>
  /\ last = Outcome("TrackingManager", "constructed")
  /\ calls = <<>>
  /\ assoc = [pc |-> "idle"]
  /\ \E weights \in WeightMatrices :
       km = [pc |-> "called", weights |-> weights,
             matches |-> Fill(Cols(weights), -1)]
  /\ thr = [t \in Threads |-> [pc |-> "idle", reg |-> 0]]

\* lines 311-364: padding, the arrays, the row labels, and the entry into the
\* row loop with i = 0
probSetup ==
  /\ km.pc = "called"
  /\ LET correlations == Pad(km.weights)
         size_squal == Len(correlations)
     IN km' = [pc |-> "search", weights |-> km.weights, matches |-> km.matches,
               n |-> size_squal, correlations |-> correlations,
               col_mask |-> Fill(size_squal, -1),
               row_weight |-> [i \in 1..size_squal |-> RowMax(correlations[i], 1, 0)],
               col_weight |-> Fill(size_squal, 0),
               row_visit |-> Fill(size_squal, 0),
               col_visit |-> Fill(size_squal, 0),
               col_gap |-> Fill(size_squal, INFINITY),
               i |-> 0, relaxed |-> 0, min_gap |-> 0, maxdepth |-> 0]
  /\ UNCHANGED <<initialized_, validFrames_, trackings_, tracking_cnt,
                 peer_trackings_, issued, last, calls, assoc, thr>>

\* lines 366-371 and 385-388, then 362-364: the search of row i succeeds, the
\* while loop is left and the row loop moves on
probRowMatched ==
  /\ km.pc = "search"
  /\ LET r == Search IN
     /\ r.ret
     /\ km' = [km EXCEPT !.row_visit = r.s.row_visit,
                         !.col_visit = r.s.col_visit,
                         !.col_mask = r.s.col_mask,
                         !.maxdepth = Max(km.maxdepth, r.s.maxdepth),
                         !.col_gap = IF km.i + 1 < km.n THEN Fill(km.n, INFINITY)
                                     ELSE r.s.col_gap,
                         !.relaxed = 0,
                         !.i = km.i + 1,
                         !.pc = IF km.i + 1 < km.n THEN "search" ELSE "looped"]
  /\ UNCHANGED <<initialized_, validFrames_, trackings_, tracking_cnt,
                 peer_trackings_, issued, last, calls, assoc, thr>>

\* lines 366-383: the search of row i fails and the labels are relaxed by the
\* smallest recorded gap.  Line 378 reads *col_visit.ptr<uint8_t>(j), row j
\* of the 1 x n array: for j = 0 that is col_visit[0], for j >= 1 it is a
\* byte size_squal * j past the start of the n-byte array, whose value is
\* whatever the heap holds; far[j + 1] says whether that byte equals 1.
probRowRelaxed ==
  /\ km.pc = "search"
  /\ km.relaxed < MaxRelax
  /\ LET r == Search
         min_gap == MinOf(r.s.col_gap)
     IN /\ ~r.ret
        /\ \E far \in [2..km.n -> BOOLEAN] :
             km' = [km EXCEPT
                      !.row_visit = r.s.row_visit,
                      !.col_visit = r.s.col_visit,
                      !.col_mask = r.s.col_mask,
                      !.col_gap = r.s.col_gap,
                      !.maxdepth = Max(km.maxdepth, r.s.maxdepth),
                      !.min_gap = min_gap,
                      !.relaxed = km.relaxed + 1,
                      !.col_weight =
                         [j \in 1..km.n |->
                            IF (IF j = 1 THEN r.s.col_visit[1] = 1 ELSE far[j])
                            THEN km.col_weight[j] + min_gap
                            ELSE km.col_weight[j]],
                      !.row_weight =
                         [j \in 1..km.n |->
                            IF r.s.row_visit[j] = 1
                            THEN km.row_weight[j] - min_gap
                            ELSE km.row_weight[j]]]
  /\ UNCHANGED <<initialized_, validFrames_, trackings_, tracking_cnt,
                 peer_trackings_, issued, last, calls, assoc, thr>>

\* lines 394-395: the first matches.cols entries of col_mask are copied out
probReadOff ==
  /\ km.pc = "looped"
  /\ km' = [km EXCEPT !.matches = SubSeq(km.col_mask, 1, Len(km.matches)),
                      !.pc = "done"]
  /\ UNCHANGED <<initialized_, validFrames_, trackings_, tracking_cnt,
                 peer_trackings_, issued, last, calls, assoc, thr>>

NextProb == probSetup \/ probRowMatched \/ probRowRelaxed \/ probReadOff

SpecProb == InitProb /\ [][NextProb]_vars

-----------------------------------------------------------------------------
(* addTracking called from two threads, each on its own manager instance;   *)
(* tracking_cnt++ on the plain static int is a load and a store.            *)

\* the calls that have been started
Started ==
  Len(issued) + Cardinality({t \in Threads : thr[t].pc # "idle"})

\* line 458, tracking_cnt++: the load
addTrackingLoad(t) ==
  /\ thr[t].pc = "idle"
  /\ Started < MaxCalls
  /\ thr' = [thr EXCEPT ![t] = [pc |-> "loaded", reg |-> tracking_cnt]]
  /\ UNCHANGED <<initialized_, validFrames_, trackings_, tracking_cnt,
                 peer_trackings_, issued, last, calls, assoc, km>>

\* line 458, tracking_cnt++: the store
addTrackingStore(t) ==
  /\ thr[t].pc = "loaded"
  /\ tracking_cnt' = NextCnt(thr[t].reg)
  /\ thr' = [thr EXCEPT ![t].pc = "stored"]
  /\ UNCHANGED <<initialized_, validFrames_, trackings_, peer_trackings_,
                 issued, last, calls, assoc, km>>

\* lines 457-465: the Tracking object gets the value that was loaded and is
\* pushed on the trackings_ of the instance the thread works on
addTrackingPush(t, name, rect) ==
  /\ thr[t].pc = "stored"
  /\ IF t = 1
     THEN /\ trackings_' = Append(trackings_, Tracking(thr[t].reg, name, rect))
          /\ UNCHANGED peer_trackings_
     ELSE /\ peer_trackings_' = Append(peer_trackings_, Tracking(thr[t].reg, name, rect))
          /\ UNCHANGED trackings_
  /\ issued' = Append(issued, thr[t].reg)
  /\ thr' = [thr EXCEPT ![t].pc = "idle"]
  /\ calls' = <<>>
  /\ last' = [Outcome("addTracking", "created") EXCEPT !.ret = thr[t].reg]
  /\ UNCHANGED <<initialized_, validFrames_, tracking_cnt, assoc, km>>

NextThreads ==
  \E t \in Threads :
     \/ addTrackingLoad(t)
     \/ addTrackingStore(t)
     \/ \E o \in StreamObjects : addTrackingPush(t, o.Category_, o.BoundBox_)

SpecThreads == Init /\ [][NextThreads]_vars

-----------------------------------------------------------------------------
\* Association: short frame streams and batches of up to MaxDets detections.
\* tracking_cnt is capped in every specification.
Next ==
  \/ \E st \in ShortStamps : track(st)
  \/ \E st \in ShortStamps, objs \in Batches :
       detectRecvProcess(st, objs) /\ tracking_cnt' <= MaxCnt
  \/ \E o \in StreamObjects :
       peerAddTracking(o.Category_, o.BoundBox_) /\ tracking_cnt' <= MaxCnt

Spec == Init /\ [][Next]_vars

\* Admission: long frame streams running into the next second, batches of at
\* most one detection.
NextStream ==
  \/ \E st \in StreamStamps : track(st)
  \/ \E st \in StreamStamps, objs \in StreamBatches :
       detectRecvProcess(st, objs) /\ tracking_cnt' <= MaxCnt

SpecStream == Init /\ [][NextStream]_vars

\* Lifecycle: creation through every entry point, on this manager and on a
\* second instance, tracks turning inactive, and pruning.
NextLifecycle ==
  \/ \E st \in {Stamp(0, 0)}, objs \in StreamBatches :
       detectRecvProcess(st, objs) /\ tracking_cnt' <= MaxLifeCnt
  \/ \E o \in StreamObjects :
       addTrackingCall(o.Category_, o.BoundBox_) /\ tracking_cnt' <= MaxLifeCnt
  \/ \E o \in StreamObjects :
       peerAddTracking(o.Category_, o.BoundBox_) /\ tracking_cnt' <= MaxLifeCnt
  \/ \E o \in Objects \ StreamObjects :
       getTracking(o.Category_, o.BoundBox_) /\ tracking_cnt' <= MaxLifeCnt
  \/ cleanTrackings
  \/ \E i \in 1..Len(trackings_) : trackingLost(i)

SpecLifecycle == Init /\ [][NextLifecycle]_vars

-----------------------------------------------------------------------------
(* Claims.                                                                  *)

\* the stamp equals an entry of the admission window in both fields
InWindow(st) == \E i \in 1..Len(validFrames_) : validFrames_[i] = st

\* the number of detections the solver left without a track
Unassigned(det_matches) ==
  Cardinality({i \in 1..Len(det_matches) : det_matches[i] < 0})

\* C1: on an initialized manager, a detection batch whose stamp is in no
\* entry of the admission window is dropped: trackings_ and the id counter
\* stay as they are, whatever the batch holds.
C1_UnadmittedBatchDropped ==
  [][\A st \in ShortStamps, objs \in Batches :
       (/\ last'.op = "detectRecvProcess"
        /\ initialized_
        /\ ~InWindow(st)
        /\ detectRecvProcess(st, objs))
       => (trackings_' = trackings_ /\ tracking_cnt' = tracking_cnt)]_vars

\* C2: on an initialized manager, a detection batch whose stamp track() has
\* admitted into the window is processed: the solver's result covers the
\* batch and every detection it leaves unassigned adds one track.
C2_AdmittedBatchProcessed ==
  [][\A st \in ShortStamps, objs \in Batches :
       (/\ last'.op = "detectRecvProcess"
        /\ initialized_
        /\ InWindow(st)
        /\ detectRecvProcess(st, objs))
       => (/\ Len(last'.det_matches) = Len(objs)
           /\ Len(trackings_') = Len(trackings_) + Unassigned(last'.det_matches))]_vars

\* C3: the first detectRecvProcess call of a manager without tracks is
\* processed whatever its stamp: n detections give exactly n tracks, in
\* detection order, with the ids tracking_cnt, tracking_cnt + 1, ..., each
\* rectified once with its detection's rectangle, and initialized_ is set
\* (also for n = 0).
C3_FirstBatchBootstraps ==
  [][\A st \in ShortStamps, objs \in Batches :
       (/\ last'.op = "detectRecvProcess"
        /\ ~initialized_
        /\ trackings_ = <<>>
        /\ detectRecvProcess(st, objs))
       => (/\ initialized_'
           /\ tracking_cnt' = tracking_cnt + Len(objs)
           /\ trackings_' = [i \in 1..Len(objs) |->
                               [id |-> tracking_cnt + i - 1,
                                name |-> objs[i].Category_,
                                rect |-> objs[i].BoundBox_,
                                active |-> TRUE]]
           /\ calls' = [i \in 1..Len(objs) |->
                          [fn |-> "rectifyTracker", id |-> tracking_cnt + i - 1,
                           rect |-> objs[i].BoundBox_, ok |-> TRUE]])]_vars

\* a first batch of two different detections has just been processed
C3_Witness ==
  /\ last.op = "detectRecvProcess"
  /\ last.res = "bootstrap"
  /\ Len(trackings_) = 2
  /\ trackings_[1].rect # trackings_[2].rect
  /\ Len(calls) = 2

\* a first batch of one detection processed after the second instance took id 0
C3_WitnessLateId ==
  /\ last.op = "detectRecvProcess"
  /\ last.res = "bootstrap"
  /\ Len(trackings_) = 1
  /\ trackings_[1].id = 1

\* C4: when a processed batch has a detection the solver assigned to a
\* track, no track is created for that detection and the assigned track's
\* rectifyTracker is called exactly once with the detection's rectangle.
C4_MatchedDetectionRectifies ==
  [][\A st \in ShortStamps, objs \in Batches :
       (/\ last'.op = "detectRecvProcess"
        /\ last'.res # "dropped"
        /\ detectRecvProcess(st, objs))
       => (/\ Len(trackings_') = Len(trackings_) + Unassigned(last'.det_matches)
           /\ \A i \in 1..Len(objs) :
                last'.det_matches[i] >= 0 =>
                  Cardinality({k \in 1..Len(calls') :
                     calls'[k] = [fn |-> "rectifyTracker",
                                  id |-> trackings_[last'.det_matches[i] + 1].id,
                                  rect |-> objs[i].BoundBox_,
                                  ok |-> TRUE]}) = 1)]_vars

\* track() took the admitting path in the step that led here
Admitted(l) ==
  l.op = "track" /\ l.res \in {"admitted", "admitted, oldest evicted"}

\* C5: the admission window never holds more than qFrameNumLimit_ stamps, its
\* entries are non-decreasing in tv_nsec from front to back, and an admitted
\* stamp goes to the back while, in a full window, the front entry (the one
\* inserted first) is the one evicted.
C5_WindowBoundedFifoOrdered ==
  /\ [](/\ Len(validFrames_) <= qFrameNumLimit_
        /\ \A i \in 1..Len(validFrames_) - 1 :
             validFrames_[i].tv_nsec <= validFrames_[i + 1].tv_nsec)
  /\ [][(Admitted(last') \/ validFrames_' # validFrames_) =>
          \E st \in StreamStamps :
             validFrames_' =
               IF Len(validFrames_) < qFrameNumLimit_
               THEN validFrames_ \o <<st>>
               ELSE Tail(validFrames_) \o <<st>>]_vars

\* a frame was admitted into a full window
C5_Witness ==
  /\ last.op = "track"
  /\ last.res = "admitted, oldest evicted"
  /\ Len(validFrames_) = qFrameNumLimit_

\* C6 as stated: isTrackFrameValid accepts a stamp exactly when the window is
\* empty or the stamp's tv_nsec is greater than or equal to the tv_nsec of
\* the latest admitted stamp.
C6_AcceptsNotEarlier ==
  \A st \in StreamStamps :
     isTrackFrameValid(validFrames_, st) <=>
       (validFrames_ = <<>> \/ st.tv_nsec >= validFrames_[Len(validFrames_)].tv_nsec)

\* C6 amended: isTrackFrameValid accepts a stamp exactly when the window is
\* empty or the stamp's tv_nsec is strictly greater than the tv_nsec of the
\* latest admitted stamp; a stamp with an equal tv_nsec is rejected.
C6_AcceptsStrictlyLater ==
  \A st \in StreamStamps :
     isTrackFrameValid(validFrames_, st) <=>
       (validFrames_ = <<>> \/ st.tv_nsec > validFrames_[Len(validFrames_)].tv_nsec)

\* track() has just rejected a frame while the latest admitted stamp has
\* tv_nsec 0: the rejected frame's tv_nsec was equal to it
C6_Witness ==
  /\ last.op = "track"
  /\ last.res = "rejected"
  /\ validFrames_ # <<>>
  /\ validFrames_[Len(validFrames_)].tv_nsec = 0

\* C7: track() on a manager that is not initialized, or with a frame that
\* fails the ordering check, changes neither the window nor the tracks and
\* calls updateTracker on no track; so the window is empty until the first
\* detectRecvProcess call has completed.
C7_TrackNoOp ==
  /\ [](~initialized_ => validFrames_ = <<>>)
  /\ [][\A st \in StreamStamps :
          (/\ last'.op = "track"
           /\ ~initialized_ \/ ~isTrackFrameValid(validFrames_, st)
           /\ track(st))
          => (/\ validFrames_' = validFrames_
              /\ trackings_' = trackings_
              /\ calls' = <<>>)]_vars

\* track() has just rejected a frame while tracks were live
C7_Witness ==
  /\ last.op = "track"
  /\ last.res = "rejected"
  /\ Len(trackings_) >= 1
  /\ calls = <<>>

\* C8: when track() admits a frame, the stamp becomes the back of the window,
\* updateTracker is called exactly once on every track in sequence order,
\* and the track sequence is the same afterwards whichever updates failed.
C8_AdmitUpdatesEveryTrack ==
  [][\A st \in StreamStamps :
       (/\ last'.op = "track"
        /\ initialized_
        /\ isTrackFrameValid(validFrames_, st)
        /\ track(st))
       => (/\ validFrames_' # <<>>
           /\ validFrames_'[Len(validFrames_')] = st
           /\ trackings_' = trackings_
           /\ Len(calls') = Len(trackings_)
           /\ \A k \in 1..Len(calls') :
                /\ calls'[k].fn = "updateTracker"
                /\ calls'[k].id = trackings_[k].id)]_vars

\* a frame was admitted with two live tracks, the first update failed and
\* both tracks are still there
C8_Witness ==
  /\ Admitted(last)
  /\ Len(trackings_) = 2
  /\ Len(calls) = 2
  /\ ~calls[1].ok
  /\ calls[2].ok

\* every id in the sequence occurs once
DistinctIds(ts) ==
  \A i, j \in 1..Len(ts) : i # j => ts[i].id # ts[j].id

\* C9: the ids handed out by successive addTracking calls, whichever path
\* made them and on whichever instance sharing the counter, are strictly
\* increasing and never reused, so the tracks of a manager always have
\* pairwise distinct ids, also after cleanTrackings has erased some.
C9_IdsIncreasingUnique ==
  /\ \A i \in 1..Len(issued) - 1 : issued[i] < issued[i + 1]
  /\ \A i \in 1..Len(issued) : issued[i] < tracking_cnt
  /\ DistinctIds(trackings_)
  /\ DistinctIds(peer_trackings_)
  /\ \A i \in 1..Len(trackings_), j \in 1..Len(peer_trackings_) :
       trackings_[i].id # peer_trackings_[j].id
  /\ \A i \in 1..Len(trackings_) : trackings_[i].id \in Range(issued)

\* cleanTrackings has erased a track and tracks created before and after
\* that are live in two instances
C9_Witness ==
  /\ Len(issued) = MaxLifeCnt
  /\ Len(trackings_) >= 1
  /\ Len(peer_trackings_) >= 1
  /\ Len(trackings_) + Len(peer_trackings_) < Len(issued)

\* C10: cleanTrackings leaves exactly the active tracks, in their original
\* relative order, and a second call right after it changes nothing.
C10_CleanKeepsActiveInOrder ==
  /\ [][(last'.op = "cleanTrackings" /\ cleanTrackings)
          => trackings_' = SelectSeq(trackings_, isActive)]_vars
  /\ [][(last.op = "cleanTrackings" /\ last'.op = "cleanTrackings" /\ cleanTrackings)
          => trackings_' = trackings_]_vars

\* cleanTrackings has just erased two consecutive tracks, the last element
\* among them, and kept the track in front of them
C10_Witness ==
  /\ last.op = "cleanTrackings"
  /\ last.n = 2
  /\ Len(trackings_) = 1
  /\ trackings_[1].id = 0

\* the association run has passed the solver
Matched == assoc.pc \in {"matched", "done"}

\* C11: the two mappings written by matchTrackDetWithDistance are a partial
\* injection in both directions: row_match[r] = c exactly when
\* col_match[c] = r, exactly for the cells the solver assigned, no track or
\* detection occurs twice, and rows and columns without an assigned cell stay
\* at -1.
C11_MatchesPartialInjection ==
  Matched =>
    LET rm == assoc.tracker_matches
        cm == assoc.det_matches
    IN /\ \A r \in 1..Len(rm), c \in 1..Len(cm) :
            /\ (rm[r] = c - 1) <=> (cm[c] = r - 1)
            /\ assoc.solved # <<>> => ((rm[r] = c - 1) <=> (assoc.solved[r][c] = 0))
       /\ \A r \in 1..Len(rm) : rm[r] \in -1..(Len(cm) - 1)
       /\ \A c \in 1..Len(cm) : cm[c] \in -1..(Len(rm) - 1)
       /\ \A r1, r2 \in 1..Len(rm) : (r1 # r2 /\ rm[r1] >= 0) => rm[r1] # rm[r2]
       /\ \A c1, c2 \in 1..Len(cm) : (c1 # c2 /\ cm[c1] >= 0) => cm[c1] # cm[c2]

\* a 2 x 2 matrix was solved: track 0 took detection 1, track 1 and
\* detection 0 stayed unmatched
C11_Witness ==
  /\ assoc.pc = "matched"
  /\ assoc.tracker_matches = <<1, -1>>
  /\ assoc.det_matches = <<-1, 0>>

Built == assoc.pc \in {"built", "matched", "done"}

\* C16: calcTrackDetMahaDistance returns an empty matrix without tracks or
\* without detections, else a tracks x detections matrix whose cell (i, j) is
\* the sentinel when track i has no trajectory or the raw distance is above
\* 2.0, and else the squared distance, which lies in [0, 4] (0..16 quarters);
\* the call changes neither the tracks nor the detections.
C16_CostMatrixShapeAndCells ==
  /\ [](Built =>
         LET d == assoc.distance
             n == assoc.before
             objs == assoc.objs
             \* four times the squared distance of the centres of track i
             \* and detection j
             sq4(i, j) ==
               LET t == trackings_[i].rect
                   o == objs[j].BoundBox_
                   dx == (2 * t.x + t.width) - (2 * o.x + o.width)
                   dy == (2 * t.y + t.height) - (2 * o.y + o.height)
               IN dx * dx + dy * dy
         IN IF n = 0 \/ Len(objs) = 0 THEN d = <<>>
            ELSE /\ Len(d) = n
                 /\ \A i \in 1..n :
                      /\ Len(d[i]) = Len(objs)
                      /\ \A j \in 1..Len(objs) :
                           IF ~assoc.found[trackings_[i].id] \/ sq4(i, j) > 16
                           THEN d[i][j] = INFINITY
                           ELSE d[i][j] = sq4(i, j) /\ d[i][j] \in 0..16)
  /\ [][(assoc.pc = "called" /\ assoc'.pc = "built")
          => (trackings_' = trackings_ /\ assoc'.objs = assoc.objs)]_vars

\* a 2 x 2 matrix was built with a zero cell, a positive finite cell, a gated
\* cell of a track with a trajectory, and a row of a track without one
C16_Witness ==
  /\ assoc.pc = "built"
  /\ Len(assoc.distance) = 2
  /\ \E i, k \in 1..2 :
       /\ assoc.found[trackings_[i].id]
       /\ ~assoc.found[trackings_[k].id]
       /\ assoc.distance[k] = <<INFINITY, INFINITY>>
       /\ \E j \in 1..2 : assoc.distance[i][j] = INFINITY
       /\ \E j \in 1..2 : assoc.distance[i][j] \in 0..16

\* the tracks with this label whose score against rect is above 0.3
GoodMatches(obj_name, rect) ==
  {i \in 1..Len(trackings_) :
     /\ trackings_[i].name = obj_name
     /\ AboveMatchThreshold(Score(trackings_[i].rect, rect))}

\* C13 as stated: getTracking called while at least one track exists and no
\* track with the label scores above 0.3 returns the empty handle and creates
\* no track; a track is created only when there are no tracks at all.
C13_UnmatchedReturnsEmpty ==
  [][\A o \in GreedyObjects :
       (/\ last'.op = "getTracking"
        /\ Len(trackings_) >= 1
        /\ GoodMatches(o.Category_, o.BoundBox_) = {}
        /\ getTracking(o.Category_, o.BoundBox_))
       => (/\ last'.ret = -1
           /\ trackings_' = trackings_
           /\ tracking_cnt' = tracking_cnt)]_vars

\* C13 amended: getTracking called while no track with the label scores above
\* 0.3 creates a track, appends it and returns it, whether tracks exist or
\* not; it never returns the empty handle.
C13_UnmatchedCreates ==
  [][\A o \in GreedyObjects :
       (/\ last'.op = "getTracking"
        /\ GoodMatches(o.Category_, o.BoundBox_) = {}
        /\ getTracking(o.Category_, o.BoundBox_))
       => (/\ last'.ret = tracking_cnt
           /\ tracking_cnt' = tracking_cnt + 1
           /\ trackings_' =
                Append(trackings_,
                       [id |-> tracking_cnt, name |-> o.Category_,
                        rect |-> o.BoundBox_, active |-> TRUE]))]_vars

\* getTracking has just created a track although tracks with the same label
\* and with another label were there
C13_Witness ==
  /\ last.op = "getTracking"
  /\ last.res = "created"
  /\ Len(trackings_) = 3
  /\ trackings_[3].name = trackings_[1].name
  /\ trackings_[3].name # trackings_[2].name

\* s is at least t, as doubles compare
ScoreGe(s, t) == s.n * t.d >= t.n * s.d

\* C14: getTracking called when some track with the label scores above 0.3
\* returns the highest-scoring track among those with that label, never one
\* with another label and never a new one, and changes neither trackings_ nor
\* the counter.
C14_MatchedReturnsBest ==
  [][\A o \in GreedyObjects :
       (/\ last'.op = "getTracking"
        /\ GoodMatches(o.Category_, o.BoundBox_) # {}
        /\ getTracking(o.Category_, o.BoundBox_))
       => (/\ trackings_' = trackings_
           /\ tracking_cnt' = tracking_cnt
           /\ \E i \in GoodMatches(o.Category_, o.BoundBox_) :
                /\ last'.ret = trackings_[i].id
                /\ \A k \in GoodMatches(o.Category_, o.BoundBox_) :
                     ScoreGe(Score(trackings_[i].rect, o.BoundBox_),
                             Score(trackings_[k].rect, o.BoundBox_)))]_vars

\* getTracking has just returned the second of two tracks of the same label,
\* the first of which overlaps the query less
C14_Witness ==
  /\ last.op = "getTracking"
  /\ last.res = "matched"
  /\ Len(trackings_) = 2
  /\ trackings_[1].name = trackings_[2].name
  /\ trackings_[1].rect = RA
  /\ trackings_[2].rect = RB
  /\ last.ret = trackings_[2].id

\* C19: when two threads run addTracking concurrently, the load and the
\* store of tracking_cnt being separate steps, the tracks they create still
\* have distinct ids and, once both are done, the counter has advanced by the
\* number of tracks created.
C19_ConcurrentIdsDistinct ==
  /\ DistinctIds(trackings_ \o peer_trackings_)
  /\ (\A t \in Threads : thr[t].pc = "idle")
       => tracking_cnt = Len(trackings_) + Len(peer_trackings_)

\* a matchTrackDetWithProb run has set up its arrays
ProbRunning == km.pc \in {"search", "looped", "done"}

\* C15: matchTrackDetWithProb on a square all-zero weight matrix leaves every
\* entry of the returned match array at -1.
C15_AllZeroUnmatched ==
  (/\ km.pc = "done"
   /\ Rows(km.weights) = Cols(km.weights)
   /\ \A i \in 1..Rows(km.weights), j \in 1..Cols(km.weights) : km.weights[i][j] = 0)
  => \A c \in 1..Len(km.matches) : km.matches[c] = -1

\* the permutations of 1..n, as the column of each row
Perms(n) == {p \in [1..n -> 1..n] : \A a, b \in 1..n : a # b => p[a] # p[b]}

RECURSIVE PermWeight(_, _, _)
PermWeight(m, p, i) ==
  IF i = 0 THEN 0 ELSE m[i][p[i]] + PermWeight(m, p, i - 1)

\* the weight of the pairs col_mask holds
RECURSIVE MaskWeight(_, _, _)
MaskWeight(m, col_mask, j) ==
  IF j = 0 THEN 0
  ELSE (IF col_mask[j] >= 0 THEN m[col_mask[j] + 1][j] ELSE 0)
       + MaskWeight(m, col_mask, j - 1)

\* C17: throughout a matchTrackDetWithProb run the labels are feasible
\* (rowLabel[i] + colLabel[j] >= weight[i][j]) and every matched pair lies in
\* the equality subgraph, and when the row loop has finished the matching is
\* a perfect matching of the padded square whose total weight is the maximum
\* over all one-to-one assignments.
C17_MaximumWeightMatching ==
  ProbRunning =>
    /\ \A i, j \in 1..km.n :
         km.row_weight[i] + km.col_weight[j] >= km.correlations[i][j]
    /\ \A j \in 1..km.n :
         km.col_mask[j] >= 0 =>
           km.row_weight[km.col_mask[j] + 1] + km.col_weight[j]
             = km.correlations[km.col_mask[j] + 1][j]
    /\ km.pc \in {"looped", "done"} =>
         /\ \A j \in 1..km.n : km.col_mask[j] \in 0..(km.n - 1)
         /\ \A a, b \in 1..km.n : a # b => km.col_mask[a] # km.col_mask[b]
         /\ \A p \in Perms(km.n) :
              MaskWeight(km.correlations, km.col_mask, km.n)
                >= PermWeight(km.correlations, p, km.n)

\* what searchMatch sees of the labels: the gap of every pair after line 421
Gaps(k) ==
  [i \in 1..k.n |->
     [j \in 1..k.n |-> snap(k.row_weight[i] + k.col_weight[j] - k.correlations[i][j])]]

\* C18: matchTrackDetWithProb terminates.  The recursion of searchMatch is
\* never deeper than the padded dimension, every relaxation uses a finite,
\* strictly positive gap, and every relaxation changes the gap of some pair:
\* a retry that finds the gaps, the matches and the recorded minima of the
\* failed search again repeats that search, and the while loop of line 366
\* has no other exit.
C18_RetryLoopTerminates ==
  /\ [](ProbRunning => km.maxdepth <= km.n)
  /\ [][(km.pc = "search" /\ km'.pc = "search" /\ km'.relaxed = km.relaxed + 1)
          => (/\ km'.min_gap > 0
              /\ km'.min_gap < INFINITY
              /\ Gaps(km') # Gaps(km))]_vars

\* C20: every entry matchTrackDetWithProb writes for a detection column is -1
\* or the index of a row of the weight matrix (never of a padded row), and no
\* row index is written for two detections, also with more detections than
\* tracks.
C20_MatchesNameExistingRows ==
  km.pc = "done" =>
    /\ \A c \in 1..Len(km.matches) :
         km.matches[c] = -1 \/ km.matches[c] \in 0..(Rows(km.weights) - 1)
    /\ \A a, b \in 1..Len(km.matches) :
         (a # b /\ km.matches[a] >= 0) => km.matches[a] # km.matches[b]

=============================================================================
